---- MODULE Spec2Model ----
(***************************************************************************)
(* Model of src/main.py: a FastAPI service with a liveness route and three *)
(* read-only data routes.  Every data route awaits connect_db() (a new     *)
(* asyncpg pool), acquires one connection inside `async with`, awaits one  *)
(* fixed SELECT and returns the rows under "data".                         *)
(*                                                                         *)
(* The database is the environment: its tables are bags of rows (SQL       *)
(* tables are multisets), and every await on it is answered, refused or    *)
(* left unanswered according to `db`.  Where SQL leaves the result open    *)
(* (ties of ORDER BY, the row order of a UNION) every result the database  *)
(* may return is a possible outcome of the fetch.                          *)
(***************************************************************************)
EXTENDS Integers, Sequences, FiniteSets, Bags, TLC

VARIABLES
    ohlc,       \* table spy_ohlc: a bag of rows
    options,    \* table spy_option_data: a bag of rows
    db,         \* how the database answers the awaits
    req,        \* the HTTP requests, by request number
    pools       \* the pools created so far, in creation order

vars == <<ohlc, options, db, req, pools>>

----------------------------------------------------------------------------
(* Bounds of the model. *)

MaxRequests == 2    \* requests of a run of Spec
MaxRows     == 6    \* rows of a table drawn by InitQuery
MaxTopRows  == 5    \* rows of a table drawn with free volumes
MaxTime     == 3    \* recorded_at values 1..MaxTime
MaxVolume   == 1    \* call_volume / put_volume values 0..MaxVolume

(* The LIMIT clauses of the three statements. *)
LatestLimit == 5
TopLimit    == 3
RecentLimit == 5

Requests == 1..MaxRequests
Times    == 1..MaxTime
Volumes  == 0..MaxVolume
Closes   == {100, 101}

RootRoute   == "/"
LatestRoute == "/spy/ohlc/latest"
TopRoute    == "/spy/options/top"
RecentRoute == "/spy/options/recent"
DataRoutes  == {LatestRoute, TopRoute, RecentRoute}
Routes      == {RootRoute} \cup DataRoutes

(* How the database answers: "up" answers every await; "unreachable"       *)
(* refuses all of them (host down, bad credentials); "failing" accepts     *)
(* connections but refuses the statement (missing table); "hung" answers   *)
(* nothing.                                                                *)
DbStates == {"up", "unreachable", "failing", "hung"}

RunningMessage == "SPY Options & OHLC API is running!"

----------------------------------------------------------------------------
(* Rows and tables. *)

OhlcRow(t, c) == [recorded_at |-> t, close |-> c]

OptionRow(t, cv, pv) == [recorded_at |-> t, call_volume |-> cv, put_volume |-> pv]

SeqToSet(s) == {s[i] : i \in 1..Len(s)}

SeqToBag(s) == [x \in SeqToSet(s) |-> Cardinality({i \in 1..Len(s) : s[i] = x})]

Max(S) == CHOOSE m \in S : \A x \in S : x <= m

Min(S) == CHOOSE m \in S : \A x \in S : m <= x

(* One copy of row r taken out of table t. *)
Without(t, r) == t (-) SetToBag({r})

(* Every bag of at most n rows drawn from `rows`. *)
RECURSIVE TablesOver(_, _)
TablesOver(rows, n) ==
    IF rows = {} THEN {EmptyBag}
    ELSE LET r == CHOOSE x \in rows : TRUE
         IN  UNION {{ IF k = 0 THEN b ELSE b @@ (r :> k)
                      : b \in TablesOver(rows \ {r}, n - k) } : k \in 0..n}

(* The table of the spec's scenario: ten rows, recorded_at 1..10. *)
ScenarioOhlc == SetToBag({OhlcRow(t, 100) : t \in 1..10})

SampleOptions ==
    SetToBag({OptionRow(1, 1, 0), OptionRow(2, 0, 1)})

OhlcTables ==
    TablesOver({OhlcRow(t, c) : t \in Times, c \in Closes}, MaxRows)

(* Option tables whose rows differ in recorded_at only. *)
OptionTablesByTime ==
    TablesOver({OptionRow(t, 0, 0) : t \in Times}, MaxRows)

(* Option tables whose rows differ in their volumes only. *)
OptionTablesByVolume ==
    TablesOver({OptionRow(1, cv, pv) : cv \in Volumes, pv \in Volumes}, MaxTopRows)

----------------------------------------------------------------------------
(* The statements. *)

(* SELECT * FROM t ORDER BY col ASC LIMIT n (the wrong direction). *)
RECURSIVE OrderByAscLimit(_, _, _)
OrderByAscLimit(t, col, n) ==
    IF n = 0 \/ t = EmptyBag THEN {<<>>}
    ELSE LET m == Min({r[col] : r \in BagToSet(t)})
         IN  UNION {{ <<r>> \o s : s \in OrderByAscLimit(Without(t, r), col, n - 1) }
                    : r \in {x \in BagToSet(t) : x[col] = m}}

(* SELECT * FROM t ORDER BY col DESC LIMIT n: every sequence the database  *)
(* may return; rows that tie on col come in any order.                     *)
RECURSIVE OrderByDescLimit(_, _, _)
OrderByDescLimit(t, col, n) ==
    IF n = 0 \/ t = EmptyBag THEN {<<>>}
    ELSE LET m == Max({r[col] : r \in BagToSet(t)})
         IN  UNION {{ <<r>> \o s : s \in OrderByDescLimit(Without(t, r), col, n - 1) }
                    : r \in {x \in BagToSet(t) : x[col] = m}}

(* The sequences that list every element of S once. *)
RECURSIVE Orderings(_)
Orderings(S) ==
    IF S = {} THEN {<<>>}
    ELSE UNION {{ <<x>> \o s : s \in Orderings(S \ {x}) } : x \in S}

(* a UNION b: the distinct rows of both, in an order SQL leaves open. *)
Union(a, b) == Orderings(SeqToSet(a) \cup SeqToSet(b))

(* a UNION ALL b keeps every row of both. *)
UnionAll(a, b) == {a \o b, b \o a}

LatestOhlcAsc == OrderByAscLimit(ohlc, "recorded_at", LatestLimit)

LatestOhlcQuery == OrderByDescLimit(ohlc, "recorded_at", LatestLimit)

TopOptionAllQuery ==
    UNION { UnionAll(a, b) : a \in OrderByDescLimit(options, "call_volume", TopLimit),
                             b \in OrderByDescLimit(options, "put_volume", TopLimit) }

TopOptionQuery ==
    UNION { Union(a, b) : a \in OrderByDescLimit(options, "call_volume", TopLimit),
                          b \in OrderByDescLimit(options, "put_volume", TopLimit) }

RecentOptionAsc == OrderByAscLimit(options, "recorded_at", RecentLimit)

RecentOptionQuery == OrderByDescLimit(options, "recorded_at", RecentLimit)

(* The results the statement of a data route may produce. *)
Query(route) ==
    CASE route = LatestRoute -> LatestOhlcQuery
      [] route = TopRoute    -> TopOptionQuery
      [] route = RecentRoute -> RecentOptionQuery

----------------------------------------------------------------------------
(* Requests, responses and pools. *)

NoResponse == [kind |-> "none", message |-> "", data |-> <<>>]

MessageResponse(m) == [kind |-> "message", message |-> m, data |-> <<>>]

DataResponse(rows) == [kind |-> "data", message |-> "", data |-> rows]

(* The framework's answer to an unhandled exception. *)
ServerError == [kind |-> "error", message |-> "", data |-> <<>>]

(* pc: "idle" no such request yet; "pending" received, handler not yet     *)
(* run; "create_pool", "acquire", "fetch", "release" suspended at that     *)
(* await; "done" answered.  creates/acquires/queries count the calls the   *)
(* handler made to the driver, raised the calls that raised.               *)
NoRequest ==
    [route |-> "none", pc |-> "idle", pool |-> 0, conn |-> 0, rows |-> <<>>,
     exc |-> FALSE, response |-> NoResponse,
     creates |-> 0, acquires |-> 0, queries |-> 0, raised |-> 0]

NewPool(r) == [creator |-> r, open |-> TRUE, held |-> {}]

Answers   == db # "hung"
Connects  == db \in {"up", "failing"}
Executes  == db = "up"

----------------------------------------------------------------------------
(* The steps. *)

(* A request for `route` arrives. *)
Receive(r, route) ==
    /\ req[r].pc = "idle"
    /\ \A q \in 1..(r - 1) : req[q].pc # "idle"
    /\ req' = [req EXCEPT ![r].route = route, ![r].pc = "pending"]
    /\ UNCHANGED <<ohlc, options, db, pools>>

(* The database changes how it answers. *)
DbChange(s) ==
    /\ s # db
    /\ db' = s
    /\ UNCHANGED <<ohlc, options, req, pools>>

(* A liveness route that first opens a pool, as the data routes do. *)
root_ping(r) ==
    /\ req[r].pc = "pending"
    /\ req[r].route = RootRoute
    /\ Connects
    /\ pools' = Append(pools, NewPool(r))
    /\ req' = [req EXCEPT ![r].pc = "done", ![r].creates = @ + 1,
                          ![r].response = MessageResponse(RunningMessage)]
    /\ UNCHANGED <<ohlc, options, db>>

(* GET /: the handler has no await and answers at once. *)
root(r) ==
    /\ req[r].pc = "pending"
    /\ req[r].route = RootRoute
    /\ req' = [req EXCEPT ![r].pc = "done",
                          ![r].response = MessageResponse(RunningMessage)]
    /\ UNCHANGED <<ohlc, options, db, pools>>

(* A data handler starts: it calls connect_db() and is suspended in        *)
(* asyncpg.create_pool.                                                    *)
connect_db(r) ==
    /\ req[r].pc = "pending"
    /\ req[r].route \in DataRoutes
    /\ req' = [req EXCEPT ![r].pc = "create_pool", ![r].creates = @ + 1]
    /\ UNCHANGED <<ohlc, options, db, pools>>

(* connect_db keeping one pool for the process: the first pool made is     *)
(* handed to every later request.                                          *)
create_pool_shared(r) ==
    /\ req[r].pc = "create_pool"
    /\ Answers
    /\ IF Connects
       THEN /\ pools' = IF pools = <<>> THEN <<NewPool(r)>> ELSE pools
            /\ req' = [req EXCEPT ![r].pool = 1,
                                  ![r].pc = "acquire", ![r].acquires = @ + 1]
       ELSE /\ req' = [req EXCEPT ![r].pc = "done", ![r].raised = @ + 1,
                                  ![r].response = ServerError]
            /\ pools' = pools
    /\ UNCHANGED <<ohlc, options, db>>

(* create_pool answers: a new pool, on which the handler calls acquire(),  *)
(* or an exception, which nothing catches.                                 *)
create_pool(r) ==
    /\ req[r].pc = "create_pool"
    /\ Answers
    /\ IF Connects
       THEN /\ pools' = Append(pools, NewPool(r))
            /\ req' = [req EXCEPT ![r].pool = Len(pools) + 1,
                                  ![r].pc = "acquire", ![r].acquires = @ + 1]
       ELSE /\ req' = [req EXCEPT ![r].pc = "done", ![r].raised = @ + 1,
                                  ![r].response = ServerError]
            /\ pools' = pools
    /\ UNCHANGED <<ohlc, options, db>>

(* pool.acquire() answers: a connection of the request's pool, on which    *)
(* the handler calls fetch, or an exception.                               *)
acquire(r) ==
    /\ req[r].pc = "acquire"
    /\ Answers
    /\ IF Connects
       THEN /\ pools' = [pools EXCEPT ![req[r].pool].held = @ \cup {r}]
            /\ req' = [req EXCEPT ![r].conn = req[r].pool,
                                  ![r].pc = "fetch", ![r].queries = @ + 1]
       ELSE /\ req' = [req EXCEPT ![r].pc = "done", ![r].raised = @ + 1,
                                  ![r].response = ServerError]
            /\ pools' = pools
    /\ UNCHANGED <<ohlc, options, db>>

(* A fetch whose exception is caught and replaced by no rows. *)
fetch_fallback(r) ==
    /\ req[r].pc = "fetch"
    /\ Answers
    /\ IF Executes
       THEN \E rows \in Query(req[r].route) :
                req' = [req EXCEPT ![r].rows = rows, ![r].pc = "release"]
       ELSE req' = [req EXCEPT ![r].rows = <<>>, ![r].raised = @ + 1,
                               ![r].pc = "release"]
    /\ UNCHANGED <<ohlc, options, db, pools>>

(* A statement that takes the rows it returns out of its table             *)
(* (DELETE ... RETURNING instead of SELECT).                               *)
fetch_deleting(r) ==
    /\ req[r].pc = "fetch"
    /\ Answers
    /\ IF Executes
       THEN \E rows \in Query(req[r].route) :
                /\ req' = [req EXCEPT ![r].rows = rows, ![r].pc = "release"]
                /\ IF req[r].route = LatestRoute
                   THEN ohlc' = ohlc (-) SeqToBag(rows) /\ options' = options
                   ELSE options' = options (-) SeqToBag(rows) /\ ohlc' = ohlc
       ELSE /\ req' = [req EXCEPT ![r].exc = TRUE, ![r].raised = @ + 1,
                                  ![r].pc = "release"]
            /\ UNCHANGED <<ohlc, options>>
    /\ UNCHANGED <<db, pools>>

(* A fetch with a statement timeout: a database that does not answer makes *)
(* it raise.                                                               *)
fetch_timeout(r) ==
    /\ req[r].pc = "fetch"
    /\ IF Executes
       THEN \E rows \in Query(req[r].route) :
                req' = [req EXCEPT ![r].rows = rows, ![r].pc = "release"]
       ELSE req' = [req EXCEPT ![r].exc = TRUE, ![r].raised = @ + 1,
                               ![r].pc = "release"]
    /\ UNCHANGED <<ohlc, options, db, pools>>

(* conn.fetch answers: the rows, or an exception; either way the           *)
(* `async with` block is left and the connection is being released.        *)
fetch(r) ==
    /\ req[r].pc = "fetch"
    /\ Answers
    /\ IF Executes
       THEN \E rows \in Query(req[r].route) :
                req' = [req EXCEPT ![r].rows = rows, ![r].pc = "release"]
       ELSE req' = [req EXCEPT ![r].exc = TRUE, ![r].raised = @ + 1,
                               ![r].pc = "release"]
    /\ UNCHANGED <<ohlc, options, db, pools>>

(* A release written after the fetch instead of by `async with`: an        *)
(* exception of the fetch skips it.                                        *)
release_unless_raised(r) ==
    /\ req[r].pc = "release"
    /\ Answers
    /\ pools' = IF req[r].exc THEN pools
                ELSE [pools EXCEPT ![req[r].conn].held = @ \ {r}]
    /\ req' = [req EXCEPT ![r].conn = IF req[r].exc THEN @ ELSE 0,
                          ![r].pc = "done",
                          ![r].response = IF req[r].exc THEN ServerError
                                          ELSE DataResponse(req[r].rows)]
    /\ UNCHANGED <<ohlc, options, db>>

(* A handler that closes its pool once the connection is back. *)
release_closing(r) ==
    /\ req[r].pc = "release"
    /\ Answers
    /\ pools' = [pools EXCEPT ![req[r].conn].held = @ \ {r},
                              ![req[r].conn].open = FALSE]
    /\ req' = [req EXCEPT ![r].conn = 0, ![r].pc = "done",
                          ![r].response = IF req[r].exc THEN ServerError
                                          ELSE DataResponse(req[r].rows)]
    /\ UNCHANGED <<ohlc, options, db>>

(* The exit of `async with` (itself awaited) has put the connection back   *)
(* in its pool; the handler returns the rows, or the exception of the      *)
(* fetch goes on to the framework.                                         *)
release(r) ==
    /\ req[r].pc = "release"
    /\ Answers
    /\ pools' = [pools EXCEPT ![req[r].conn].held = @ \ {r}]
    /\ req' = [req EXCEPT ![r].conn = 0, ![r].pc = "done",
                          ![r].response = IF req[r].exc THEN ServerError
                                          ELSE DataResponse(req[r].rows)]
    /\ UNCHANGED <<ohlc, options, db>>

----------------------------------------------------------------------------
(* The specifications. *)

Idle ==
    /\ db \in DbStates
    /\ req = [r \in Requests |-> NoRequest]
    /\ pools = <<>>

(* The service with its requests interleaved, over sample tables. *)
Init ==
    /\ ohlc = ScenarioOhlc
    /\ options = SampleOptions
    /\ Idle

(* One request over every table of the bounds, the database answering the  *)
(* same way throughout.                                                    *)
InitQuery ==
    /\ \/ ohlc \in OhlcTables \cup {ScenarioOhlc} /\ options = SampleOptions
       \/ ohlc = ScenarioOhlc /\ options \in OptionTablesByTime \cup OptionTablesByVolume
    /\ Idle

Step(r) ==
    \/ \E route \in Routes : Receive(r, route)
    \/ root(r)
    \/ connect_db(r)
    \/ create_pool(r)
    \/ acquire(r)
    \/ fetch(r)
    \/ release(r)

Next ==
    \/ \E r \in Requests : Step(r)
    \/ \E s \in DbStates : DbChange(s)

NextQuery == Step(1)

Spec == Init /\ [][Next]_vars

SpecQuery == InitQuery /\ [][NextQuery]_vars

----------------------------------------------------------------------------
(* What the properties below read off a state. *)

NonIncreasing(d, col) == \A i, j \in 1..Len(d) : i < j => d[i][col] >= d[j][col]

(* The rows of table t that response d leaves out, with their multiplicity. *)
LeftOut(t, d) == t (-) SeqToBag(d)

(* No row left out of d ranks strictly above a row of d. *)
NoneGreaterLeftOut(t, d, col) ==
    \A x \in BagToSet(LeftOut(t, d)) : \A i \in 1..Len(d) : ~(x[col] > d[i][col])

(* How many rows of t (with multiplicity) rank strictly above x on col. *)
RowsAbove(t, x, col) ==
    BagCardinality([y \in {z \in BagToSet(t) : z[col] > x[col]} |-> t[y]])

Answered(r, route) ==
    /\ req[r].pc = "done"
    /\ req[r].route = route
    /\ req[r].response.kind = "data"

Suspended(r) == req[r].pc \in {"create_pool", "acquire", "fetch", "release"}

OpenPools == {p \in 1..Len(pools) : pools[p].open}

----------------------------------------------------------------------------
(* C1: a successful GET /spy/ohlc/latest over a table of N rows returns    *)
(* exactly min(5, N) rows of the table, non-increasing by recorded_at, and *)
(* no row left out has a recorded_at strictly greater than a returned row; *)
(* over the ten rows 1..10 it returns 10, 9, 8, 7, 6 in that order.        *)
C1_LatestOhlc ==
    \A r \in Requests : Answered(r, LatestRoute) =>
        LET d == req[r].response.data
            N == BagCardinality(ohlc)
        IN  /\ Len(d) <= 5
            /\ Len(d) = IF N < 5 THEN N ELSE 5
            /\ SeqToBag(d) \sqsubseteq ohlc
            /\ NonIncreasing(d, "recorded_at")
            /\ NoneGreaterLeftOut(ohlc, d, "recorded_at")
            /\ ohlc = ScenarioOhlc =>
                   [i \in 1..Len(d) |-> d[i].recorded_at] = <<10, 9, 8, 7, 6>>

(* A table of more than five rows was cut: a row older than every returned *)
(* row was left out, and two returned rows tie on recorded_at.             *)
C1_Witness ==
    \E r \in Requests :
        /\ Answered(r, LatestRoute)
        /\ ohlc # ScenarioOhlc
        /\ BagCardinality(ohlc) > 5
        /\ LET d == req[r].response.data
           IN  /\ \E x \in BagToSet(LeftOut(ohlc, d)) :
                      x.recorded_at < d[Len(d)].recorded_at
               /\ \E i \in 1..(Len(d) - 1) :
                      d[i].recorded_at = d[i + 1].recorded_at /\ d[i] # d[i + 1]

(* C2: a successful GET /spy/options/top returns at most 6 rows, each a    *)
(* row of the table that is among the top 3 by call_volume or the top 3 by *)
(* put_volume, and no two returned rows are identical.                     *)
C2_TopOptions ==
    \A r \in Requests : Answered(r, TopRoute) =>
        LET d == req[r].response.data
        IN  /\ Len(d) <= 6
            /\ \A i \in 1..Len(d) :
                   /\ BagIn(d[i], options)
                   /\ \/ RowsAbove(options, d[i], "call_volume") < 3
                      \/ RowsAbove(options, d[i], "put_volume") < 3
            /\ \A i, j \in 1..Len(d) : i # j => d[i] # d[j]

(* A row that is in both top-3 sets was returned once, next to a row that  *)
(* is in the top 3 by put_volume only, and a row of the table was left out.*)
C2_Witness ==
    \E r \in Requests :
        /\ Answered(r, TopRoute)
        /\ LET d == req[r].response.data
           IN  /\ \E i \in 1..Len(d) :
                      /\ RowsAbove(options, d[i], "call_volume") < 3
                      /\ RowsAbove(options, d[i], "put_volume") < 3
               /\ \E i \in 1..Len(d) :
                      RowsAbove(options, d[i], "call_volume") >= 3
               /\ \E x \in BagToSet(options) : x \notin SeqToSet(d)

(* C3: a successful GET /spy/options/recent returns at most 5 rows,        *)
(* non-increasing by recorded_at, and they are the rows of the table with  *)
(* the greatest recorded_at: min(5, N) rows of the table, none of the rows *)
(* left out being strictly more recent than a returned one.                *)
C3_RecentOptions ==
    \A r \in Requests : Answered(r, RecentRoute) =>
        LET d == req[r].response.data
            N == BagCardinality(options)
        IN  /\ Len(d) <= 5
            /\ Len(d) = IF N < 5 THEN N ELSE 5
            /\ SeqToBag(d) \sqsubseteq options
            /\ NonIncreasing(d, "recorded_at")
            /\ NoneGreaterLeftOut(options, d, "recorded_at")

(* An option table of more than five rows was cut below its five most      *)
(* recent rows, which span more than one recorded_at.                      *)
C3_Witness ==
    \E r \in Requests :
        /\ Answered(r, RecentRoute)
        /\ BagCardinality(options) > 5
        /\ LET d == req[r].response.data
           IN  /\ \E x \in BagToSet(LeftOut(options, d)) :
                      x.recorded_at < d[Len(d)].recorded_at
               /\ d[1].recorded_at > d[Len(d)].recorded_at

(* C4: GET / answers the fixed message in every state, whatever the        *)
(* database does and whatever other requests are suspended: a pending      *)
(* GET / can always run, it ends with the message, and it has created no   *)
(* pool, acquired no connection and issued no query.                       *)
C4_RootAlways ==
    \A r \in Requests : req[r].route = RootRoute =>
        /\ req[r].pc \in {"pending", "done"}
        /\ req[r].pc = "pending" => ENABLED root(r)
        /\ req[r].pc = "done" => req[r].response = MessageResponse(RunningMessage)
        /\ req[r].creates = 0 /\ req[r].acquires = 0 /\ req[r].queries = 0
        /\ req[r].pool = 0 /\ req[r].conn = 0
        /\ \A p \in 1..Len(pools) : pools[p].creator # r /\ r \notin pools[p].held

(* GET / was answered while the database answers nothing and another       *)
(* request hangs in its query.                                             *)
C4_Witness ==
    \E r, q \in Requests :
        /\ req[r].route = RootRoute /\ req[r].pc = "done"
        /\ req[r].response.message = RunningMessage
        /\ db = "hung"
        /\ req[q].pc = "fetch"

(* C5: a data-route request whose pool creation, acquisition or query      *)
(* raised is answered with a server error only, never with a "data" body;  *)
(* the failed step is not retried and nothing is called after it: at most  *)
(* one pool creation, one acquisition and one query per request.           *)
C5_FailurePropagates ==
    \A r \in Requests :
        /\ req[r].creates <= 1 /\ req[r].acquires <= 1 /\ req[r].queries <= 1
        /\ req[r].raised <= 1
        /\ req[r].raised > 0 =>
              /\ req[r].pc \in {"release", "done"}
              /\ req[r].response.kind # "data"
              /\ req[r].response.data = <<>>
              /\ req[r].pc = "done" => req[r].response = ServerError
              /\ req[r].pool = 0 => req[r].acquires = 0 /\ req[r].queries = 0
              /\ ~req[r].exc /\ req[r].pool # 0 =>
                     req[r].acquires = 1 /\ req[r].queries = 0
        /\ req[r].response.kind = "data" => req[r].raised = 0

(* A request whose query raised was answered with a server error, after    *)
(* one pool creation, one acquisition and one query.                       *)
C5_Witness ==
    \E r \in Requests :
        /\ req[r].route \in DataRoutes
        /\ req[r].pc = "done"
        /\ req[r].response = ServerError
        /\ req[r].exc /\ req[r].raised = 1
        /\ req[r].creates = 1 /\ req[r].acquires = 1 /\ req[r].queries = 1

(* C6: the connection a data-route request acquired is released before     *)
(* the request is answered, after a query that succeeded and after one     *)
(* that raised: an answered request holds no connection of any pool, and   *)
(* a connection is held only by a request between acquire and release.     *)
C6_ConnectionReleased ==
    \A r \in Requests :
        /\ req[r].pc = "done" =>
              /\ req[r].conn = 0
              /\ \A p \in 1..Len(pools) : r \notin pools[p].held
        /\ \A p \in 1..Len(pools) :
              r \in pools[p].held => req[r].pc \in {"fetch", "release"} /\ req[r].conn = p

(* A request whose query raised was answered and its pool holds no         *)
(* connection of it.                                                       *)
C6_Witness ==
    \E r \in Requests :
        /\ req[r].pc = "done"
        /\ req[r].exc
        /\ req[r].acquires = 1
        /\ req[r].pool # 0
        /\ pools[req[r].pool].held = {}

(* C7: every data-route request creates its own pool and acquires exactly  *)
(* one connection, from that pool: no two requests share a pool, and no    *)
(* request holds a connection of a pool another request created.           *)
C7_OwnPool ==
    /\ \A r \in Requests :
          /\ req[r].creates <= 1 /\ req[r].acquires <= 1
          /\ req[r].pc \in {"create_pool", "acquire", "fetch", "release"} =>
                 req[r].creates = 1
          /\ req[r].pc \in {"acquire", "fetch", "release"} =>
                 /\ req[r].acquires = 1
                 /\ req[r].pool \in 1..Len(pools)
          /\ req[r].pool # 0 => pools[req[r].pool].creator = r
          /\ req[r].conn # 0 => req[r].conn = req[r].pool
          /\ \A q \in Requests : q # r /\ req[r].pool # 0 => req[q].pool # req[r].pool
    /\ \A p \in 1..Len(pools) : \A r \in pools[p].held : pools[p].creator = r

(* Two requests hold a connection at the same time, each of its own pool.  *)
C7_Witness ==
    \E r, q \in Requests :
        /\ r # q
        /\ req[r].pc = "fetch" /\ req[q].pc = "fetch"
        /\ r \in pools[req[r].conn].held
        /\ q \in pools[req[q].conn].held

(* C8: no step of the service changes the contents of spy_ohlc or          *)
(* spy_option_data.                                                        *)
C8_ReadOnly == [][ohlc' = ohlc /\ options' = options]_vars

(* One data request was answered with rows and another with an error.      *)
C8_Witness ==
    \E r, q \in Requests :
        /\ req[r].pc = "done" /\ req[r].response.kind = "data"
        /\ req[r].response.data # <<>>
        /\ req[q].pc = "done" /\ req[q].response = ServerError

(* A suspended request and what may run beside it. *)
OthersCanRun ==
    \A r, q \in Requests :
        Suspended(r) /\ req[q].pc = "pending" =>
            IF req[q].route = RootRoute THEN ENABLED root(q) ELSE ENABLED connect_db(q)

(* While the database does not answer, a suspended request stays as it is. *)
StaysSuspended ==
    \A r \in Requests : Suspended(r) /\ db = "hung" => req'[r] = req[r]

(* C9: a request suspended at a database await does not block the others:  *)
(* any pending request can run (GET / to completion), and the service      *)
(* neither cancels nor times out the suspended request, which stays where  *)
(* it is for as long as the database does not answer.                      *)
C9_NoBlockingNoTimeout == []OthersCanRun /\ [][StaysSuspended]_vars

(* A request hangs in its query on a database that answers nothing, and    *)
(* GET / has been answered beside it.                                      *)
C9_Witness ==
    \E r, q \in Requests :
        /\ req[r].pc = "fetch" /\ db = "hung"
        /\ q > r
        /\ req[q].route = RootRoute /\ req[q].pc = "done"

(* C10: the service never closes a pool: every pool created is still open, *)
(* the open pools are as many as the data-route requests whose pool        *)
(* creation succeeded, and their number never decreases.                   *)
C10_PoolsStayOpen ==
    /\ [](/\ \A p \in 1..Len(pools) : pools[p].open
          /\ Cardinality(OpenPools) = Cardinality({r \in Requests : req[r].pool # 0}))
    /\ [][Cardinality(OpenPools)' >= Cardinality(OpenPools)]_vars

(* A request was answered after a query error, a second one with rows, and *)
(* the pools of both are open with their connections back.                 *)
C10_Witness ==
    \E r, q \in Requests :
        /\ req[r].pc = "done" /\ req[r].exc
        /\ req[q].pc = "done" /\ req[q].response.kind = "data"
        /\ Cardinality(OpenPools) = 2
        /\ \A p \in OpenPools : pools[p].held = {}

====
